---- MODULE Spec2Model ----
(***************************************************************************)
(* Model of jokebot.py: the file-backed subscriber and seen-set stores,    *)
(* the feed aggregation, the fresh-item selectors, the hourly broadcast    *)
(* loop and the command handlers, as tasks of one cooperative event loop.  *)
(* A step of a task runs from one await to the next.                       *)
(*                                                                         *)
(* A Python str is a tuple of one-character strings, so that strip(),      *)
(* concatenation and sorted() are computed and not assumed.                *)
(***************************************************************************)
EXTENDS Integers, Sequences, FiniteSets, TLC

\* ------------------------------------------------------------------ bounds
\* Number of chats that talk to the bot.
MaxChats == 2
\* Number of command handlers that may be in flight at the same time.
MaxHandlers == 2
\* Number of commands the chats send in the run that is explored.
MaxCommands == 2
\* Number of times the hourly loop wakes up in the run that is explored.
MaxPasses == 2
\* Number of days the clock specification follows the loop for.
MaxDays == 1
\* Number of entries a source serves in the feed specification.
MaxFeedLen == 3
\* Largest chat id the store specification saves.
MaxStoredId == 3
\* Length of the lists in the documents the store specification starts from.
MaxListLen == 2

Chats == 1..MaxChats
Handlers == 1..MaxHandlers
\* Task 0 is hourly_broadcast_loop; tasks 1..MaxHandlers run command handlers.
LoopTask == 0
Tasks == {LoopTask} \cup Handlers

Cats == {"joke", "news"}

\* ----------------------------------------------------------------- strings
\* Characters in code-point order; a character's rank is its place here.
Alphabet == <<" ", "1", "2", ":", "a", "j", "l", "n", "t">>

Rank(ch) == CHOOSE i \in 1..Len(Alphabet) : Alphabet[i] = ch

\* Python's str < str: lexicographic by code point, a proper prefix is less.
RECURSIVE StrLess(_, _)
StrLess(s, t) ==
    IF t = <<>> THEN FALSE
    ELSE IF s = <<>> THEN TRUE
    ELSE IF Head(s) = Head(t) THEN StrLess(Tail(s), Tail(t))
    ELSE Rank(Head(s)) < Rank(Head(t))

IntLess(a, b) == a < b

\* str.strip(): leading and trailing whitespace removed.
RECURSIVE LStrip(_)
LStrip(s) == IF s # <<>> /\ Head(s) = " " THEN LStrip(Tail(s)) ELSE s

RECURSIVE RStrip(_)
RStrip(s) ==
    IF s # <<>> /\ s[Len(s)] = " " THEN RStrip(SubSeq(s, 1, Len(s) - 1)) ELSE s

Strip(s) == RStrip(LStrip(s))

\* sorted(S): the elements of the set S in ascending order.
RECURSIVE SortedStr(_)
SortedStr(S) ==
    IF S = {} THEN <<>>
    ELSE LET m == CHOOSE x \in S : \A y \in S \ {x} : StrLess(x, y)
         IN <<m>> \o SortedStr(S \ {m})

RECURSIVE SortedInt(_)
SortedInt(S) ==
    IF S = {} THEN <<>>
    ELSE LET m == CHOOSE x \in S : \A y \in S \ {x} : IntLess(x, y)
         IN <<m>> \o SortedInt(S \ {m})

\* set(list)
ToSet(seq) == {seq[i] : i \in 1..Len(seq)}

\* -------------------------------------------------------------------- JSON
\* A Python value as json reads and writes it: an int, a str, None, a list
\* or a dict (its members in insertion order). The model nests a document no
\* deeper than a dict of lists of scalars.
PyVal(t, n, s, l, d) == [t |-> t, n |-> n, s |-> s, l |-> l, d |-> d]
PyInt(n) == PyVal("int", n, <<>>, <<>>, <<>>)
PyStr(s) == PyVal("str", 0, s, <<>>, <<>>)
PyNull == PyVal("null", 0, <<>>, <<>>, <<>>)
PyList(l) == PyVal("list", 0, <<>>, l, <<>>)
PyDict(d) == PyVal("dict", 0, <<>>, <<>>, d)
Member(key, val) == [key |-> key, val |-> val]

\* The text of a JSON file, token by token (white space left out).
Tok(k, n, s) == [k |-> k, n |-> n, s |-> s]
Punct(k) == Tok(k, 0, <<>>)

IsScalar(tok) == tok.k \in {"int", "str", "null"}
ScalarOf(tok) == PyVal(tok.k, tok.n, tok.s, <<>>, <<>>)

\* json.dump(data, f, ensure_ascii=False, indent=2), level by level: the
\* elements of a list, a scalar or a list, the members of a dict.
RECURSIVE DumpItems(_)
DumpItems(l) ==
    IF Len(l) = 0 THEN <<>>
    ELSE IF Len(l) = 1 THEN <<Tok(l[1].t, l[1].n, l[1].s)>>
    ELSE <<Tok(l[1].t, l[1].n, l[1].s), Punct(",")>> \o DumpItems(Tail(l))

DumpValue(v) ==
    IF v.t = "list" THEN <<Punct("[")>> \o DumpItems(v.l) \o <<Punct("]")>>
    ELSE <<Tok(v.t, v.n, v.s)>>

RECURSIVE DumpMembers(_)
DumpMembers(d) ==
    IF Len(d) = 0 THEN <<>>
    ELSE LET m == <<Tok("str", 0, d[1].key), Punct(":")>> \o DumpValue(d[1].val)
         IN IF Len(d) = 1 THEN m ELSE m \o <<Punct(",")>> \o DumpMembers(Tail(d))

json_dump(v) ==
    IF v.t = "dict" THEN <<Punct("{")>> \o DumpMembers(v.d) \o <<Punct("}")>>
    ELSE DumpValue(v)

NoParse == [ok |-> FALSE, v |-> PyNull, next |-> 0]

\* The list of scalars that opens at token i and closes at token j.
ListBetween(text, i, j) ==
    IF j = i + 1 THEN [ok |-> TRUE, v |-> PyList(<<>>), next |-> j + 1]
    ELSE IF /\ (j - i - 1) % 2 = 1
            /\ \A q \in 1..(j - i - 1) : IF q % 2 = 1 THEN IsScalar(text[i + q])
                                         ELSE text[i + q].k = ","
    THEN [ok |-> TRUE,
          v |-> PyList([q \in 1..((j - i) \div 2) |-> ScalarOf(text[i + 2 * q - 1])]),
          next |-> j + 1]
    ELSE NoParse

\* A list of scalars that opens at token i.
ParseList(text, i) ==
    IF ~\E j \in (i + 1)..Len(text) : text[j].k = "]" THEN NoParse
    ELSE ListBetween(text, i, CHOOSE j \in (i + 1)..Len(text) :
                                  /\ text[j].k = "]"
                                  /\ \A h \in (i + 1)..(j - 1) : text[h].k # "]")

\* A scalar or a list that opens at token i.
ParseValue(text, i) ==
    IF i > Len(text) THEN NoParse
    ELSE IF IsScalar(text[i]) THEN [ok |-> TRUE, v |-> ScalarOf(text[i]), next |-> i + 1]
    ELSE IF text[i].k = "[" THEN ParseList(text, i)
    ELSE NoParse

\* The members of an object from token i on, after those of acc.
RECURSIVE ParseMembers(_, _, _), AfterValue(_, _, _)
ParseMembers(text, i, acc) ==
    IF i + 2 > Len(text) \/ text[i].k # "str" \/ text[i + 1].k # ":" THEN NoParse
    ELSE AfterValue(text, Append(acc, Member(text[i].s, PyNull)), ParseValue(text, i + 2))

\* The object after the value pv of its last member, whose key heads acc.
AfterValue(text, acc, pv) ==
    IF ~pv.ok \/ pv.next > Len(text) THEN NoParse
    ELSE IF text[pv.next].k = "}"
    THEN [ok |-> TRUE, v |-> PyDict([acc EXCEPT ![Len(acc)].val = pv.v]),
          next |-> pv.next + 1]
    ELSE IF text[pv.next].k = ","
    THEN ParseMembers(text, pv.next + 1, [acc EXCEPT ![Len(acc)].val = pv.v])
    ELSE NoParse

\* json.load(f): the value, or ok = FALSE where it raises.
ParseDocument(text) ==
    IF Len(text) = 0 THEN NoParse
    ELSE IF text[1].k # "{" THEN ParseValue(text, 1)
    ELSE IF Len(text) >= 2 /\ text[2].k = "}"
    THEN [ok |-> TRUE, v |-> PyDict(<<>>), next |-> 3]
    ELSE ParseMembers(text, 2, <<>>)

WholeText(text, p) == IF p.ok /\ p.next = Len(text) + 1 THEN p ELSE NoParse

json_load(text) == WholeText(text, ParseDocument(text))

\* dict.get(key, default): the value of the last member of that key.
Get(data, key, default) ==
    LET at == {i \in 1..Len(data.d) : data.d[i].key = key}
    IN IF at = {} THEN default
       ELSE data.d[CHOOSE i \in at : \A j \in at : j <= i].val

\* iter(x): the elements of a list, the characters of a str, the keys of a
\* dict; an int and None are not iterable.
Iterate(x) ==
    CASE x.t = "list" -> [ok |-> TRUE, l |-> x.l]
      [] x.t = "str" -> [ok |-> TRUE, l |-> [i \in 1..Len(x.s) |-> PyStr(<<x.s[i]>>)]]
      [] x.t = "dict" -> [ok |-> TRUE, l |-> [i \in 1..Len(x.d) |-> PyStr(x.d[i].key)]]
      [] OTHER -> [ok |-> FALSE, l |-> <<>>]

Digits == <<"0", "1", "2", "3", "4", "5", "6", "7", "8", "9">>
IsDigit(ch) == \E i \in 1..10 : Digits[i] = ch
DigitValue(ch) == (CHOOSE i \in 1..10 : Digits[i] = ch) - 1

RECURSIVE IntValue(_)
IntValue(s) ==
    IF Len(s) = 0 THEN 0
    ELSE 10 * IntValue(SubSeq(s, 1, Len(s) - 1)) + DigitValue(s[Len(s)])

\* int(x) for an element of the list: whether it returns, and what. The
\* strings of the model carry no sign.
AllDigits(s) == s # <<>> /\ \A i \in 1..Len(s) : IsDigit(s[i])

IntOk(x) == x.t = "int" \/ (x.t = "str" /\ AllDigits(Strip(x.s)))

IntOf(x) == IF x.t = "int" THEN x.n ELSE IntValue(Strip(x.s))

\* ------------------------------------------------------------------- files
\* A file is either missing or holds a text.
Missing == [exists |-> FALSE]
Doc(d) == [exists |-> TRUE, data |-> d]

\* load_json(path, default): the default when the file does not exist or
\* json.load raises.
ValueOr(p, default) == IF p.ok THEN p.v ELSE default

load_json(file, default) ==
    IF ~file.exists THEN default ELSE ValueOr(json_load(file.data), default)

\* save_json(path, data): the file is overwritten with the whole document.
save_json(data) == Doc(json_dump(data))

\* What a call returns: a set, or an exception. A set(...) of a seen file
\* can hold values that are not strings: they are kept apart in foreign.
Returned(value, foreign) == [raises |-> FALSE, value |-> value, foreign |-> foreign]
Raised == [raises |-> TRUE, value |-> {}, foreign |-> {}]

KeyChatIds == <<"chat_ids">>
KeyIds == <<"ids">>

\* load_subscribers as a call: data.get raises on a document that is not a
\* dict, map(int, ...) on a value that is not iterable or an element int()
\* does not take; elems.ok is FALSE where one of the first two has raised.
\* set(map(int, elems))
SetOfInts(elems) ==
    IF ~elems.ok \/ \E i \in 1..Len(elems.l) : ~IntOk(elems.l[i])
    THEN Raised
    ELSE Returned({IntOf(elems.l[i]) : i \in 1..Len(elems.l)}, {})

\* data.get(key, []) as far as the iteration over the value.
GetElems(data, key) ==
    IF data.t # "dict" THEN [ok |-> FALSE, l |-> <<>>]
    ELSE Iterate(Get(data, key, PyList(<<>>)))

load_subscribers_call(file) ==
    SetOfInts(GetElems(load_json(file, PyDict(<<Member(KeyChatIds, PyList(<<>>))>>)),
                       KeyChatIds))

load_subscribers(file) == load_subscribers_call(file).value

\* save_subscribers with the list written largest id first.
save_subscribers_descending(subs) ==
    LET l == SortedInt(subs)
    IN save_json(PyDict(<<Member(KeyChatIds,
                                 PyList([i \in 1..Len(l) |-> PyInt(l[Len(l) + 1 - i])]))>>))

save_subscribers(subs) ==
    LET l == SortedInt(subs)
    IN save_json(PyDict(<<Member(KeyChatIds, PyList([i \in 1..Len(l) |-> PyInt(l[i])]))>>))

\* load_seen / load_news_seen as a call: same code over SEEN_FILE /
\* NEWS_SEEN_FILE; set(...) raises on a value that is not iterable or an
\* element that is not hashable.
\* set(elems)
SetOf(elems) ==
    IF ~elems.ok \/ \E i \in 1..Len(elems.l) : elems.l[i].t \in {"list", "dict"}
    THEN Raised
    ELSE Returned({elems.l[i].s : i \in {j \in 1..Len(elems.l) : elems.l[j].t = "str"}},
                  {elems.l[i] : i \in {j \in 1..Len(elems.l) : elems.l[j].t # "str"}})

load_seen_call(file) ==
    SetOf(GetElems(load_json(file, PyDict(<<Member(KeyIds, PyList(<<>>))>>)), KeyIds))

load_seen(file) == load_seen_call(file).value

\* save_seen / save_news_seen
save_seen(seen) ==
    LET l == SortedStr(seen)
    IN save_json(PyDict(<<Member(KeyIds, PyList([i \in 1..Len(l) |-> PyStr(l[i])]))>>))

\* ------------------------------------------------------------------- feeds
\* The configured sources, by name (the model keeps the lists' lengths).
FEEDS == <<"export20", "export_j", "export_j_non_burning">>

NEWS_FEEDS == <<"lenta", "rbc", "tass">>

FeedsOf(cat) == IF cat = "joke" THEN FEEDS ELSE NEWS_FEEDS

\* An attribute the parsed entry does not have.
Absent == <<"absent">>
\* Python's None.
None == <<"None">>

Entry(id, link, title, summary, description) ==
    [id |-> id, link |-> link, title |-> title, summary |-> summary,
     description |-> description]

Urls == ToSet(FEEDS) \cup ToSet(NEWS_FEEDS)

VARIABLES
    served,       \* per source, the entries feedparser.parse finds in its answer
    feedEv,       \* observation: the last aggregation or entry, and what came of it
    store         \* a state file on its own: its kind, its text, the last call on it

pureVars == <<served, feedEv, store>>

\* What the sources serve while the bot runs: fixed for the whole lifetime
\* of the process.
FeedContent(url) ==
    CASE url = "export20" ->
           << Entry(<<"j", "1">>, <<"l", "1">>, Absent, <<"a">>, Absent) >>
      [] url = "export_j" ->
           << Entry(Absent, Absent, <<"t">>, Absent, Absent) >>
      [] url = "export_j_non_burning" ->
           << Entry(<<"j", "2">>, <<"l", "2">>, Absent, Absent, Absent) >>
      [] url = "lenta" ->
           << Entry(<<"n", "1">>, <<"l", "1">>, <<"t">>, <<" ", "a", " ">>, Absent) >>
      [] url = "rbc" ->
           << Entry(<<"n", "2">>, <<"l", "2">>, <<"t">>, Absent, <<"a">>) >>
      [] OTHER -> << >>

\* parsed.entries of the source's answer.
FeedEntries(url) == served[url]

\* getattr(e, name, default)
GetAttr(e, name, default) == IF e[name] = Absent THEN default ELSE e[name]

\* Python truthiness of a str-or-None value.
Truthy(v) == v # None /\ v # <<>>

\* a or b
Or(a, b) == IF Truthy(a) THEN a ELSE b

\* The body of fetch_feed's loop for one entry: the item, or nothing.
EntryItems(e) ==
    LET uid == Or(GetAttr(e, "id", None),
                  GetAttr(e, "link", <<>>) \o <<":", ":">> \o GetAttr(e, "title", <<>>))
        text == Or(GetAttr(e, "summary", None),
                   Or(GetAttr(e, "description", None), GetAttr(e, "title", <<>>)))
        link == GetAttr(e, "link", <<>>)
    IN IF Truthy(text)
       THEN << [id |-> uid, text |-> Strip(text), link |-> link] >>
       ELSE << >>

RECURSIVE ParseEntries(_)
ParseEntries(entries) ==
    IF entries = <<>> THEN <<>>
    ELSE EntryItems(Head(entries)) \o ParseEntries(Tail(entries))

\* fetch_feed returning the items of a source that failed.
fetch_feed_despite_failure(url, ok) == ParseEntries(FeedEntries(url))

\* fetch_feed(client, url): the items of the feed, or [] when the request, the
\* status check or the parse raised.
fetch_feed(url, ok) == IF ok THEN ParseEntries(FeedEntries(url)) ELSE <<>>

\* ---------------------------------------------------------------- selector
\* items = [it for bucket in buckets for it in bucket]
RECURSIVE Flatten(_)
Flatten(buckets) ==
    IF buckets = <<>> THEN <<>> ELSE Head(buckets) \o Flatten(Tail(buckets))

\* The orders random.shuffle can leave a list in.
Shuffles(items) ==
    LET n == Len(items)
        perms == {p \in [1..n -> 1..n] : \A i, j \in 1..n : p[i] = p[j] => i = j}
    IN {[i \in 1..n |-> items[p[i]]] : p \in perms}

\* for it in items: if it["id"] not in seen -> the place of the first such item.
FirstUnseen(items, seen) ==
    IF \E i \in 1..Len(items) : items[i].id \notin seen
    THEN CHOOSE i \in 1..Len(items) :
            /\ items[i].id \notin seen
            /\ \A j \in 1..(i - 1) : items[j].id \in seen
    ELSE 0

SourceSep == <<"\n\nIstochnik: ">>
DefaultJokeLink == <<"https://www.anekdot.ru/">>

\* The f-string of get_fresh_joke (link or the site) and of get_fresh_news.
ItemText(cat, it) ==
    it.text \o SourceSep
            \o (IF cat = "joke" THEN Or(it.link, DefaultJokeLink) ELSE it.link)

\* What the selector returns: {"text": ...} or None. id is carried along only
\* to observe which item the text came from.
Some(cat, it) == [some |-> TRUE, text |-> ItemText(cat, it), id |-> it.id]
Nothing == [some |-> FALSE, text |-> <<>>, id |-> <<>>]

\* get_fresh with the fresh item saved without being added to the seen set.
get_fresh_no_mark(cat, items, seen, k) ==
    LET i == FirstUnseen(items, seen)
    IN IF i # 0
       THEN [ret |-> Some(cat, items[i]), seen |-> seen, save |-> TRUE]
       ELSE IF items # <<>>
       THEN [ret |-> Some(cat, items[k]), seen |-> seen, save |-> FALSE]
       ELSE [ret |-> Nothing, seen |-> seen, save |-> FALSE]

\* get_fresh with the seen set started afresh once the category is exhausted.
get_fresh_reset(cat, items, seen, k) ==
    LET i == FirstUnseen(items, seen)
    IN IF i # 0
       THEN [ret |-> Some(cat, items[i]), seen |-> seen \cup {items[i].id},
             save |-> TRUE]
       ELSE IF items # <<>>
       THEN [ret |-> Some(cat, items[k]), seen |-> {items[k].id}, save |-> TRUE]
       ELSE [ret |-> Nothing, seen |-> seen, save |-> FALSE]

\* get_fresh with the seen set emptied when no source produced an item.
get_fresh_empty_reset(cat, items, seen, k) ==
    LET i == FirstUnseen(items, seen)
    IN IF i # 0
       THEN [ret |-> Some(cat, items[i]), seen |-> seen \cup {items[i].id},
             save |-> TRUE]
       ELSE IF items # <<>>
       THEN [ret |-> Some(cat, items[k]), seen |-> seen, save |-> FALSE]
       ELSE [ret |-> Nothing, seen |-> {}, save |-> TRUE]

\* The part of get_fresh_joke / get_fresh_news after the gather, for the order
\* `items` the shuffle produced and the place `k` random.choice draws:
\* the value returned, the local seen set and whether it is saved.
get_fresh(cat, items, seen, k) ==
    LET i == FirstUnseen(items, seen)
    IN IF i # 0
       THEN [ret |-> Some(cat, items[i]), seen |-> seen \cup {items[i].id},
             save |-> TRUE]
       ELSE IF items # <<>>
       THEN [ret |-> Some(cat, items[k]), seen |-> seen, save |-> FALSE]
       ELSE [ret |-> Nothing, seen |-> seen, save |-> FALSE]

\* The places random.choice(items) may draw; it is called only when the scan
\* found nothing and the list is not empty.
Choices(items, seen) ==
    IF FirstUnseen(items, seen) = 0 /\ items # <<>> THEN 1..Len(items) ELSE {1}

NoNewsText == <<"Poka net novostej - poprobujte pozzhe.">>
NoJokeText == <<"Poka net anekdotov - poprobujte pozzhe.">>
Placeholder(cat) == IF cat = "joke" THEN NoJokeText ELSE NoNewsText

\* ------------------------------------------------------------------- state
VARIABLES
    subsFile,     \* SUBS_FILE
    seenFile,     \* SEEN_FILE ("joke") and NEWS_SEEN_FILE ("news")
    loopPc,       \* where hourly_broadcast_loop is suspended
    subs_list,    \* its local subs_list
    idx,          \* the place of chat_id in subs_list
    hnd,          \* per handler slot: the command being handled
    sel,          \* per task: the frame of its get_fresh_joke / get_fresh_news
    out,          \* per task: the send_message / respond it awaits
    returned,     \* observation: per category, the ids returned so far
    sentInPass,   \* observation: send_message calls of the current pass
    snapshot,     \* observation: SUBS_FILE as the current pass found it
    commands,     \* observation: the number of commands received
    passes,       \* observation: the number of wake-ups of the loop
    applied,      \* observation: the /start and /stop commands applied in turn
    ev,           \* observation: the step just taken
    now,          \* the UTC wall clock, read by datetime.now(timezone.utc)
    delay,        \* what the loop last passed to asyncio.sleep, in microseconds
    clockPc       \* the loop's position as far as the clock is concerned

botVars == <<subsFile, seenFile, loopPc, subs_list, idx, hnd, sel, out,
             returned, sentInPass, snapshot, commands, passes, applied, ev>>

clockVars == <<now, delay, clockPc>>

vars == <<botVars, clockVars, pureVars>>

NoSel == [active |-> FALSE]
NoOut == [active |-> FALSE]
Free == [kind |-> "free"]

NoSends == [c \in Chats, cat \in Cats |-> 0]

\* get_fresh_joke / get_fresh_news up to `await asyncio.gather(*tasks)`:
\* the seen set is loaded and one fetch per source is started.
StartSelector(cat, file) == [active |-> TRUE, cat |-> cat, seen |-> load_seen(file)]

\* Which sources answer: one flag per source of the category.
Outcomes(cat) == [1..Len(FeedsOf(cat)) -> BOOLEAN]

\* buckets = await asyncio.gather(*tasks), flattened: the gather returns when
\* every fetch_feed has returned, with one bucket per source, in FEEDS order.
gather(cat, oks) ==
    Flatten([i \in 1..Len(FeedsOf(cat)) |-> fetch_feed(FeedsOf(cat)[i], oks[i])])

Ids(items) == [i \in 1..Len(items) |-> items[i].id]

InitBot ==
    /\ subsFile = Missing
    /\ seenFile = [cat \in Cats |-> Missing]
    /\ loopPc = "sleep"
    /\ subs_list = <<>>
    /\ idx = 0
    /\ hnd = [h \in Handlers |-> Free]
    /\ sel = [t \in Tasks |-> NoSel]
    /\ out = [t \in Tasks |-> NoOut]
    /\ returned = [cat \in Cats |-> {}]
    /\ sentInPass = NoSends
    /\ snapshot = Missing
    /\ commands = 0
    /\ passes = 0
    /\ applied = {}
    /\ ev = [op |-> "init"]

\* ------------------------------------------------------------ the selector
\* The selector's run from the gather to its return, as the fields of the
\* state it changes; `r` is get_fresh's result.
SelectorReturns(t, oks, items, r) ==
    LET cat == sel[t].cat
    IN /\ seenFile' = IF r.save THEN [seenFile EXCEPT ![cat] = save_seen(r.seen)]
                      ELSE seenFile
       /\ sel' = [sel EXCEPT ![t] = NoSel]
       /\ returned' = IF r.ret.some
                      THEN [returned EXCEPT ![cat] = @ \cup {r.ret.id}]
                      ELSE returned
       /\ ev' = [op |-> "select", task |-> t, cat |-> cat,
                 loaded |-> sel[t].seen, items |-> Ids(gather(cat, oks)),
                 some |-> r.ret.some, id |-> r.ret.id, text |-> r.ret.text,
                 before |-> seenFile[cat], returnedBefore |-> returned[cat]]

\* --------------------------------------------------------- the broadcast
\* send_*_to_chat sending the selector's return as it is, item or not.
send_to_chat_no_placeholder(cat, chat, ret) ==
    [active |-> TRUE, chat |-> chat, text |-> ret.text,
     link_preview |-> FALSE, guarded |-> TRUE]

\* send_news_to_chat / send_joke_to_chat from the selector's return to the
\* await of send_message: the placeholder is sent outside the try block,
\* the item text inside it.
send_to_chat(cat, chat, ret) ==
    IF ~ret.some
    THEN [active |-> TRUE, chat |-> chat, text |-> Placeholder(cat),
          link_preview |-> TRUE, guarded |-> FALSE]
    ELSE [active |-> TRUE, chat |-> chat, text |-> ret.text,
          link_preview |-> FALSE, guarded |-> TRUE]

\* observation: the category, the id and the freshness of the item a message
\* carries, kept beside the pending send.
Carrying(o, cat, r) == o @@ [cat |-> cat, id |-> r.ret.id, fresh |-> r.save]

NoPick == [ret |-> Nothing, seen |-> {}, save |-> FALSE]

\* The subscriber being served, with the registry read again at every turn.
chat_id_live ==
    LET live == SortedInt(load_subscribers(subsFile))
    IN IF idx <= Len(live) THEN live[idx] ELSE subs_list[idx]

\* `for chat_id in subs_list`: the subscriber being served.
chat_id == subs_list[idx]

\* The orders of a list of every chat, subscribed or not.
Orders_everyone(subs) == Shuffles(SortedInt(Chats))

\* The orders list(subs) followed by random.shuffle can produce.
Orders(subs) == Shuffles(SortedInt(subs))

\* asyncio.sleep returns at the top of the hour: the registry is read once,
\* an empty one sends the loop back to sleep, otherwise the first subscriber's
\* send_news_to_chat runs up to the gather of get_fresh_news.
Wake ==
    /\ UNCHANGED <<clockVars, pureVars>>
    /\ UNCHANGED applied
    /\ loopPc = "sleep"
    /\ passes < MaxPasses
    /\ passes' = passes + 1
    /\ LET subs == load_subscribers(subsFile)
       IN IF subs = {}
          THEN /\ UNCHANGED <<loopPc, subs_list, idx, sel>>
          ELSE /\ subs_list' \in Orders(subs)
               /\ idx' = 1
               /\ loopPc' = "news_fetch"
               /\ sel' = [sel EXCEPT ![LoopTask] = StartSelector("news", seenFile["news"])]
    /\ snapshot' = subsFile
    /\ sentInPass' = NoSends
    /\ ev' = [op |-> "wake", task |-> LoopTask]
    /\ UNCHANGED <<subsFile, seenFile, hnd, out, returned, commands>>

\* The gather of the loop's selector returns, each source having answered or
\* failed: the selector picks and saves,
\* and send_*_to_chat calls send_message.
LoopSelect ==
    /\ UNCHANGED <<clockVars, pureVars>>
    /\ UNCHANGED applied
    /\ loopPc \in {"news_fetch", "joke_fetch"}
    /\ sel[LoopTask].active
    /\ LET frame == sel[LoopTask]
       IN \E oks \in Outcomes(frame.cat) :
          \E items \in Shuffles(gather(frame.cat, oks)) :
          \E k \in Choices(items, frame.seen) :
            LET r == get_fresh(frame.cat, items, frame.seen, k)
            IN /\ SelectorReturns(LoopTask, oks, items, r)
               /\ out' = [out EXCEPT ![LoopTask] =
                            Carrying(send_to_chat(frame.cat, chat_id, r.ret), frame.cat, r)]
               /\ sentInPass' = [sentInPass EXCEPT ![chat_id, frame.cat] = @ + 1]
               /\ loopPc' = IF frame.cat = "news" THEN "news_send" ELSE "joke_send"
    /\ UNCHANGED <<subsFile, subs_list, idx, hnd, snapshot, commands, passes>>

\* The loop after a send of the pass, with the joke of a subscriber left out.
NextStage_news_only(pc, i, n) ==
    IF i < n THEN [pc |-> "news_fetch", idx |-> i + 1] ELSE [pc |-> "sleep", idx |-> i]

\* Where the loop goes after a send of the pass: from the news of a
\* subscriber to the joke of the same one, from the joke to the news of the
\* next one, and after the last one to sleep.
NextStage(pc, i, n) ==
    IF pc = "news_send" THEN [pc |-> "joke_fetch", idx |-> i]
    ELSE IF i < n THEN [pc |-> "news_fetch", idx |-> i + 1]
    ELSE [pc |-> "sleep", idx |-> i]

\* The loop's send_message finishes or raises. A raise inside the try block
\* is printed; a raise of the placeholder send leaves send_*_to_chat and
\* hourly_broadcast_loop, and the task ends. Otherwise the loop goes on to
\* the joke of the same subscriber, to the next subscriber, or to sleep.
LoopSendDone(ok) ==
    /\ UNCHANGED <<clockVars, pureVars>>
    /\ UNCHANGED applied
    /\ loopPc \in {"news_send", "joke_send"}
    /\ out[LoopTask].active
    /\ out' = [out EXCEPT ![LoopTask] = NoOut]
    /\ ev' = [op |-> "sent", task |-> LoopTask, chat |-> out[LoopTask].chat,
              text |-> out[LoopTask].text, ok |-> ok,
              guarded |-> out[LoopTask].guarded, cat |-> out[LoopTask].cat,
              id |-> out[LoopTask].id, fresh |-> out[LoopTask].fresh]
    /\ IF ~ok /\ ~out[LoopTask].guarded
       THEN /\ loopPc' = "crashed"
            /\ UNCHANGED <<idx, sel>>
       ELSE LET nx == NextStage(loopPc, idx, Len(subs_list))
            IN /\ loopPc' = nx.pc
               /\ idx' = nx.idx
               /\ sel' = IF nx.pc = "joke_fetch"
                         THEN [sel EXCEPT ![LoopTask] = StartSelector("joke", seenFile["joke"])]
                         ELSE IF nx.pc = "news_fetch"
                         THEN [sel EXCEPT ![LoopTask] = StartSelector("news", seenFile["news"])]
                         ELSE sel
    /\ UNCHANGED <<subsFile, seenFile, subs_list, hnd, returned, sentInPass, snapshot,
                   commands, passes>>

\* ------------------------------------------------------------ the commands
WelcomeText == <<"Privet!">>
StoppedText == <<"Gotovo!">>
NotSubscribedText == <<"Vas net v spiske podpisok.">>

Respond(chat, text, preview) ==
    [active |-> TRUE, chat |-> chat, text |-> text, link_preview |-> preview,
     guarded |-> FALSE]

\* handler_start saving the caller alone, as a load made before another
\* handler's save would have it.
handler_start_from_empty(file, c) == save_subscribers({c})

\* handler_stop writing the file whether or not the caller was subscribed.
handler_stop_always_save(file, c) ==
    [file |-> save_subscribers(load_subscribers(file) \ {c}),
     text |-> IF c \in load_subscribers(file) THEN StoppedText ELSE NotSubscribedText]

\* handler_start up to its await: load, add, save.
handler_start(file, c) == save_subscribers(load_subscribers(file) \cup {c})

\* handler_stop up to its await: the file it leaves and the reply.
handler_stop(file, c) ==
    IF c \in load_subscribers(file)
    THEN [file |-> save_subscribers(load_subscribers(file) \ {c}), text |-> StoppedText]
    ELSE [file |-> file, text |-> NotSubscribedText]

CmdStart(h, c) ==
    /\ UNCHANGED <<clockVars, pureVars>>
    /\ hnd[h] = Free
    /\ commands < MaxCommands
    /\ commands' = commands + 1
    /\ subsFile' = handler_start(subsFile, c)
    /\ applied' = applied \cup {c}
    /\ hnd' = [hnd EXCEPT ![h] = [kind |-> "start", chat |-> c]]
    /\ out' = [out EXCEPT ![h] = Carrying(Respond(c, WelcomeText, TRUE), "none", NoPick)]
    /\ ev' = [op |-> "start", task |-> h, chat |-> c, before |-> subsFile]
    /\ UNCHANGED <<seenFile, loopPc, subs_list, idx, sel, returned, sentInPass, snapshot,
                   passes>>

CmdStop(h, c) ==
    /\ UNCHANGED <<clockVars, pureVars>>
    /\ hnd[h] = Free
    /\ commands < MaxCommands
    /\ commands' = commands + 1
    /\ subsFile' = handler_stop(subsFile, c).file
    /\ applied' = applied \ {c}
    /\ hnd' = [hnd EXCEPT ![h] = [kind |-> "stop", chat |-> c]]
    /\ out' = [out EXCEPT ![h] =
                 Carrying(Respond(c, handler_stop(subsFile, c).text, TRUE), "none", NoPick)]
    /\ ev' = [op |-> "stop", task |-> h, chat |-> c, before |-> subsFile]
    /\ UNCHANGED <<seenFile, loopPc, subs_list, idx, sel, returned, sentInPass, snapshot,
                   passes>>

\* handler_joke / handler_news up to the gather of their selector.
CmdItem(h, c, cat) ==
    /\ UNCHANGED <<clockVars, pureVars>>
    /\ UNCHANGED applied
    /\ hnd[h] = Free
    /\ commands < MaxCommands
    /\ commands' = commands + 1
    /\ hnd' = [hnd EXCEPT ![h] = [kind |-> cat, chat |-> c]]
    /\ sel' = [sel EXCEPT ![h] = StartSelector(cat, seenFile[cat])]
    /\ ev' = [op |-> "command", task |-> h, chat |-> c, cat |-> cat]
    /\ UNCHANGED <<subsFile, seenFile, loopPc, subs_list, idx, out, returned,
                   sentInPass, snapshot, passes>>

\* The gather of a handler's selector returns, each source having answered or
\* failed: the selector picks and saves,
\* and the handler responds with the text or with the placeholder.
HandlerSelect(h) ==
    /\ UNCHANGED <<clockVars, pureVars>>
    /\ UNCHANGED applied
    /\ sel[h].active
    /\ LET frame == sel[h]
       IN \E oks \in Outcomes(frame.cat) :
          \E items \in Shuffles(gather(frame.cat, oks)) :
          \E k \in Choices(items, frame.seen) :
            LET r == get_fresh(frame.cat, items, frame.seen, k)
            IN /\ SelectorReturns(h, oks, items, r)
               /\ out' = [out EXCEPT ![h] =
                            Carrying(Respond(hnd[h].chat,
                                             IF r.ret.some THEN r.ret.text
                                             ELSE Placeholder(frame.cat),
                                             FALSE),
                                     frame.cat, r)]
    /\ UNCHANGED <<subsFile, loopPc, subs_list, idx, hnd, sentInPass, snapshot,
                   commands, passes>>

\* event.respond finishes or raises: either way the handler is over.
RespondDone(h, ok) ==
    /\ UNCHANGED <<clockVars, pureVars>>
    /\ UNCHANGED applied
    /\ out[h].active
    /\ out' = [out EXCEPT ![h] = NoOut]
    /\ hnd' = [hnd EXCEPT ![h] = Free]
    /\ ev' = [op |-> "sent", task |-> h, chat |-> out[h].chat, text |-> out[h].text,
              ok |-> ok, guarded |-> FALSE, cat |-> out[h].cat, id |-> out[h].id,
              fresh |-> out[h].fresh]
    /\ UNCHANGED <<subsFile, seenFile, loopPc, subs_list, idx, sel, returned,
                   sentInPass, snapshot, commands, passes>>

\* --------------------------------------------------------------- the clock
\* A datetime is [day, hour, minute, second, microsecond], day counting from
\* the day the process starts; a timedelta is Python's normalised triple
\* [days, seconds, microseconds].
DateTime(d, h, m, sec, us) ==
    [day |-> d, hour |-> h, minute |-> m, second |-> sec, microsecond |-> us]

TimeDelta(d, sec, us) == [days |-> d, seconds |-> sec, microseconds |-> us]

\* timedelta's constructor: microseconds carried into seconds, seconds into days.
Normalised(d, sec, us) ==
    LET us2 == us % 1000000
        sec1 == sec + ((us - us2) \div 1000000)
        sec2 == sec1 % 86400
    IN TimeDelta(d + ((sec1 - sec2) \div 86400), sec2, us2)

SecondOfDay(dt) == (dt.hour * 60 + dt.minute) * 60 + dt.second

\* datetime - datetime
Minus(a, b) ==
    Normalised(a.day - b.day, SecondOfDay(a) - SecondOfDay(b),
               a.microsecond - b.microsecond)

\* datetime + timedelta
Plus(dt, td) ==
    LET t == Normalised(dt.day + td.days, SecondOfDay(dt) + td.seconds,
                        dt.microsecond + td.microseconds)
    IN DateTime(t.days, t.seconds \div 3600, (t.seconds % 3600) \div 60,
                t.seconds % 60, t.microseconds)

\* timedelta.total_seconds(), as whole seconds and a microsecond fraction.
total_seconds(td) == [sec |-> td.days * 86400 + td.seconds, us |-> td.microseconds]

\* now.replace(minute=0, second=0, microsecond=0)
ReplaceToHour(dt) == [dt EXCEPT !.minute = 0, !.second = 0, !.microsecond = 0]

\* The delay with the seconds of `now` left in place by the replace.
seconds_until_minutes_only(dt) ==
    LET next_hour == Plus([dt EXCEPT !.minute = 0, !.microsecond = 0],
                          TimeDelta(0, 3600, 0))
    IN total_seconds(Minus(next_hour, dt))

seconds_until_next_top_of_hour(dt) ==
    LET next_hour == Plus(ReplaceToHour(dt), TimeDelta(0, 3600, 0))
    IN total_seconds(Minus(next_hour, dt))

\* The times the process may start at: every second of an hour in the night,
\* in the afternoon and before midnight, on and off a whole second.
StartHours == {0, 14, 23}
StartMicros == {0, 1, 999999}
StartTimes ==
    {DateTime(0, h, m, sec, us) :
        h \in StartHours, m \in 0..59, sec \in 0..59, us \in StartMicros}

\* How long a broadcast pass may take.
PassDurations == {TimeDelta(0, 0, 1), TimeDelta(0, 2, 500000), TimeDelta(0, 3600, 0)}

\* How late asyncio.sleep may return.
Lateness == {TimeDelta(0, 0, 0), TimeDelta(0, 0, 1)}

NoDelay == [sec |-> 0, us |-> 0]

\* `asyncio.sleep(seconds_until_next_top_of_hour())`: the delay is computed
\* from the clock and the loop suspends.
ClockSleep ==
    /\ clockPc = "running"
    /\ delay' = seconds_until_next_top_of_hour(now)
    /\ clockPc' = "sleeping"
    /\ UNCHANGED <<now, botVars, pureVars>>

\* The sleep returns once the delay has elapsed.
ClockWake(late) ==
    /\ clockPc = "sleeping"
    /\ now.day < MaxDays
    /\ now' = Plus(Plus(now, TimeDelta(0, delay.sec, delay.us)), late)
    /\ clockPc' = "pass"
    /\ UNCHANGED <<delay, botVars, pureVars>>

\* The broadcast pass takes its time and the loop comes round again.
ClockPass(d) ==
    /\ clockPc = "pass"
    /\ now' = Plus(now, d)
    /\ clockPc' = "running"
    /\ UNCHANGED <<delay, botVars, pureVars>>

\* ------------------------------------------------------------ the sources
NoFeedEv == [op |-> "init"]

\* A source that serves n entries, each with an id of its own and a summary.
FeedOf(url, n) ==
    [i \in 1..n |-> Entry(<<url, Digits[i + 1]>>, <<"l">>, Absent, <<"a">>, Absent)]

FeedTables ==
    {[url \in Urls |-> FeedOf(url, n[url])] : n \in [Urls -> 0..MaxFeedLen]}

\* The first four lines of get_fresh_joke / get_fresh_news after the load:
\* one fetch per source, the gather, the flattening.
Aggregate(cat, oks) ==
    /\ feedEv' = [op |-> "aggregate", cat |-> cat, oks |-> oks, items |-> gather(cat, oks)]
    /\ UNCHANGED <<botVars, clockVars, served, store>>

\* The values feedparser gives a text attribute of an entry.
FieldTexts == {Absent, <<>>, <<" ">>, <<"a">>, <<" ", "t", " ">>}

Entries ==
    {Entry(id, link, title, summary, description) :
        id \in {Absent, <<"j", "1">>}, link \in {Absent, <<"l", "1">>},
        title \in FieldTexts, summary \in FieldTexts, description \in FieldTexts}

\* fetch_feed's loop over a feed of the one entry e.
ParseEntry(e) ==
    /\ feedEv' = [op |-> "entry", entry |-> e, items |-> ParseEntries(<<e>>)]
    /\ UNCHANGED <<botVars, clockVars, served, store>>

\* ------------------------------------------------------------- the store
Kinds == {"subs", "seen"}

KeyOf(kind) == IF kind = "subs" THEN KeyChatIds ELSE KeyIds

load_call(kind, file) ==
    IF kind = "subs" THEN load_subscribers_call(file) ELSE load_seen_call(file)

save_call(kind, S) == IF kind = "subs" THEN save_subscribers(S) ELSE save_seen(S)

\* The sets a caller saves: chat ids (a group's id is negative) and item ids.
SetsOf(kind) ==
    IF kind = "subs" THEN SUBSET ({-1} \cup 1..MaxStoredId)
    ELSE SUBSET {<<"a">>, <<"j", "1">>, <<":", ":", "t">>}

\* What a state file may hold when the process finds it: nothing, a text
\* json.load does not take, or a document of any type.
ListElems(kind) ==
    IF kind = "subs"
    THEN {PyInt(1), PyInt(2), PyStr(<<"1">>), PyStr(<<"a">>), PyNull}
    ELSE {PyStr(<<"a">>), PyStr(<<"j", "1">>)}

Lists(kind) == UNION {[1..n -> ListElems(kind)] : n \in 0..MaxListLen}

Documents(kind) ==
    {PyList(<<PyInt(1), PyInt(2)>>), PyInt(5), PyStr(<<"a">>), PyNull, PyDict(<<>>),
     PyDict(<<Member(<<"x">>, PyInt(1))>>)}
    \cup {PyDict(<<Member(KeyOf(kind), PyList(l))>>) : l \in Lists(kind)}
    \cup {PyDict(<<Member(KeyOf(kind), v)>>) :
             v \in {PyInt(5), PyNull, PyStr(<<"1", "2">>), PyStr(<<"a">>)}}

Texts(kind) ==
    {json_dump(d) : d \in Documents(kind)}
    \cup {SubSeq(json_dump(d), 1, Len(json_dump(d)) - 1) : d \in Documents(kind)}

FilesOnDisk(kind) == {Missing} \cup {Doc(t) : t \in Texts(kind)}

NoStore ==
    [kind |-> "subs", file |-> Missing, op |-> "init", arg |-> {},
     res |-> Returned({}, {}), before |-> Missing, written |-> FALSE,
     beforeWritten |-> FALSE]

\* load_subscribers() / load_seen() / load_news_seen()
StoreLoad ==
    /\ store' = [store EXCEPT !.op = "load", !.arg = {},
                              !.res = load_call(store.kind, store.file),
                              !.before = store.file, !.beforeWritten = store.written]
    /\ UNCHANGED <<botVars, clockVars, served, feedEv>>

\* save_subscribers(S) / save_seen(S) / save_news_seen(S)
StoreSave(S) ==
    /\ store' = [store EXCEPT !.op = "save", !.arg = S, !.res = Returned({}, {}),
                              !.file = save_call(store.kind, S),
                              !.before = store.file, !.written = TRUE,
                              !.beforeWritten = store.written]
    /\ UNCHANGED <<botVars, clockVars, served, feedEv>>

\* save(load()): what was just loaded is saved.
Resave(r) ==
    /\ ~r.raises
    /\ r.foreign = {}
    /\ store' = [store EXCEPT !.op = "resave", !.arg = r.value, !.res = r,
                              !.file = save_call(store.kind, r.value),
                              !.before = store.file, !.written = TRUE,
                              !.beforeWritten = store.written]

StoreResave ==
    /\ Resave(load_call(store.kind, store.file))
    /\ UNCHANGED <<botVars, clockVars, served, feedEv>>

\* ------------------------------------------------------ the specifications
\* Spec follows the tasks and leaves the clock out: Wake stands for the
\* sleep having returned.
InitPure ==
    /\ served = [url \in Urls |-> FeedContent(url)]
    /\ feedEv = NoFeedEv
    /\ store = NoStore

Init ==
    /\ InitBot
    /\ InitPure
    /\ now = DateTime(0, 0, 0, 0, 0)
    /\ delay = NoDelay
    /\ clockPc = "unobserved"

Next ==
    \/ Wake
    \/ LoopSelect
    \/ \E ok \in BOOLEAN : LoopSendDone(ok)
    \/ \E h \in Handlers, c \in Chats : CmdStart(h, c)
    \/ \E h \in Handlers, c \in Chats : CmdStop(h, c)
    \/ \E h \in Handlers, c \in Chats, cat \in Cats : CmdItem(h, c, cat)
    \/ \E h \in Handlers : HandlerSelect(h)
    \/ \E h \in Handlers, ok \in BOOLEAN : RespondDone(h, ok)

Spec == Init /\ [][Next]_vars

\* ClockSpec follows the loop's clock alone, from any start time.
ClockInit ==
    /\ InitBot
    /\ InitPure
    /\ now \in StartTimes
    /\ delay = NoDelay
    /\ clockPc = "running"

ClockNext ==
    \/ ClockSleep
    \/ \E late \in Lateness : ClockWake(late)
    \/ \E d \in PassDurations : ClockPass(d)

ClockSpec == ClockInit /\ [][ClockNext]_vars

\* FeedSpec follows the aggregation alone, over any content of the sources.
FeedInit ==
    /\ InitBot
    /\ served \in FeedTables
    /\ feedEv = NoFeedEv
    /\ store = NoStore
    /\ now = DateTime(0, 0, 0, 0, 0)
    /\ delay = NoDelay
    /\ clockPc = "unobserved"

FeedNext == \E cat \in Cats : \E oks \in Outcomes(cat) : Aggregate(cat, oks)

FeedSpec == FeedInit /\ [][FeedNext]_vars

\* EntrySpec follows fetch_feed's loop alone, over any entry.
EntryNext == \E e \in Entries : ParseEntry(e)

EntrySpec == Init /\ [][EntryNext]_vars

\* StoreSpec follows one state file alone, from anything it may hold.
StoreInit ==
    /\ InitBot
    /\ served = [url \in Urls |-> FeedContent(url)]
    /\ feedEv = NoFeedEv
    /\ store \in UNION {{[NoStore EXCEPT !.kind = kind, !.file = f] :
                            f \in FilesOnDisk(kind)} : kind \in Kinds}
    /\ now = DateTime(0, 0, 0, 0, 0)
    /\ delay = NoDelay
    /\ clockPc = "unobserved"

StoreNext ==
    \/ StoreLoad
    \/ \E S \in SetsOf(store.kind) : StoreSave(S)
    \/ StoreResave

StoreSpec == StoreInit /\ [][StoreNext]_vars

\* ------------------------------------------------------------- the claims
IsSelect == ev.op = "select"

HasUnseen == \E i \in 1..Len(ev.items) : ev.items[i] \notin ev.loaded

\* C1: a selector never returns an id it has returned before in this process
\* while an item of the list it aggregated has never been returned.
C1_NoRepeatBeforeExhausted ==
    (IsSelect /\ ev.some /\ ev.id \in ev.returnedBefore)
        => ToSet(ev.items) \subseteq ev.returnedBefore

\* C2: the ids in a seen-set file only grow: every id in the file before a
\* selector's step is in the file after it.
C2_SeenFileMonotonic ==
    IsSelect => load_seen(ev.before) \subseteq load_seen(seenFile[ev.cat])

\* C3: when the aggregated list holds an item whose id is not in the loaded
\* seen set, the selector returns an item of the list that was not in it, and
\* the file it leaves holds the loaded set plus exactly that id.
C3_FreshPickMarked ==
    (IsSelect /\ HasUnseen)
        => /\ ev.some
           /\ ev.id \in ToSet(ev.items)
           /\ ev.id \notin ev.loaded
           /\ load_seen(seenFile[ev.cat]) = ev.loaded \cup {ev.id}

C3_Witness ==
    /\ IsSelect
    /\ HasUnseen
    /\ ev.loaded # {}
    /\ ev.some
    /\ load_seen(seenFile[ev.cat]) = ev.loaded \cup {ev.id}

\* C4: when the aggregated list is not empty and every id in it is in the
\* loaded seen set, the selector returns an item of the list and the seen-set
\* file is as it was before the step.
C4_ExhaustedRepeats ==
    (IsSelect /\ ev.items # <<>> /\ ~HasUnseen)
        => /\ ev.some
           /\ ev.id \in ToSet(ev.items)
           /\ seenFile[ev.cat] = ev.before

C4_Witness ==
    /\ IsSelect
    /\ Len(ev.items) > 1
    /\ ~HasUnseen
    /\ ev.some
    /\ seenFile[ev.cat] = ev.before

\* C5: when the aggregated list is empty the selector returns nothing and the
\* seen-set file is as it was before the step.
C5_EmptyReturnsNothing ==
    (IsSelect /\ ev.items = <<>>)
        => /\ ~ev.some
           /\ seenFile[ev.cat] = ev.before

C5_Witness ==
    /\ IsSelect
    /\ ev.items = <<>>
    /\ ~ev.some
    /\ ev.loaded # {}
    /\ seenFile[ev.cat] = ev.before

\* C6: a send of the broadcast pass that raises, whatever text it carries,
\* is caught: the loop is then at the next selection of the pass or asleep.
C6_SendErrorCaught ==
    (ev.op = "sent" /\ ev.task = LoopTask /\ ~ev.ok)
        => loopPc \in {"news_fetch", "joke_fetch", "sleep"}

\* C7: the hourly loop never stops on its own: whatever happened in a pass,
\* the loop task is suspended in a sleep or inside a pass, never ended.
C7_LoopNeverStops == loopPc # "crashed"

\* C8: the delay is 3600 - s for a time s whole seconds past the hour, lies in
\* (0, 3600], leads to a time with zero minutes, seconds and microseconds,
\* and is 1380 at 14:37:00.
C8_DelayToTopOfHour ==
    clockPc = "sleeping"
        => LET s == now.minute * 60 + now.second
               fire == Plus(now, TimeDelta(0, delay.sec, delay.us))
           IN /\ now.microsecond = 0 => delay = [sec |-> 3600 - s, us |-> 0]
              /\ delay.sec > 0 \/ (delay.sec = 0 /\ delay.us > 0)
              /\ delay.sec < 3600 \/ (delay.sec = 3600 /\ delay.us = 0)
              /\ fire.minute = 0 /\ fire.second = 0 /\ fire.microsecond = 0
              /\ now = DateTime(0, 14, 37, 0, 0) => delay = [sec |-> 1380, us |-> 0]

C8_Witness ==
    /\ clockPc = "sleeping"
    /\ now = DateTime(0, 14, 37, 0, 0)
    /\ delay = [sec |-> 1380, us |-> 0]

\* C9: when a broadcast pass is over, send_message has been called exactly
\* once for every subscriber of the snapshot and category, and for no other
\* chat.
C9_OneSendPerSubscriberAndCategory ==
    loopPc \in {"sleep", "crashed"}
        => \A c \in Chats, cat \in Cats :
              sentInPass[c, cat] = IF c \in load_subscribers(snapshot) THEN 1 ELSE 0

\* C10: a pass reads the registry once, when it starts: the list it walks is
\* the registry as the wake-up found it, and a chat that is not in that
\* snapshot gets no message from the pass, whenever it subscribed since.
C10_SnapshotOncePerPass ==
    /\ \A c \in Chats, cat \in Cats :
          sentInPass[c, cat] > 0 => c \in load_subscribers(snapshot)
    /\ ev.op = "wake" => snapshot = subsFile
    /\ loopPc \in {"news_fetch", "news_send", "joke_fetch", "joke_send"}
          => ToSet(subs_list) = load_subscribers(snapshot)

C10_Witness ==
    /\ loopPc = "sleep"
    /\ \E c \in Chats, d \in Chats :
          /\ c \in load_subscribers(subsFile)
          /\ c \notin load_subscribers(snapshot)
          /\ d \in load_subscribers(snapshot)
          /\ sentInPass[d, "news"] = 1 /\ sentInPass[d, "joke"] = 1
          /\ sentInPass[c, "news"] = 0 /\ sentInPass[c, "joke"] = 0

\* C11: the id of a freshly picked item is in the seen-set file while the
\* message that carries the item is pending, and it is still there when the
\* send of that message has failed.
C11_MarkedBeforeSend ==
    /\ \A t \in Tasks :
          (out[t].active /\ out[t].fresh) => out[t].id \in load_seen(seenFile[out[t].cat])
    /\ (ev.op = "sent" /\ ev.fresh /\ ~ev.ok) => ev.id \in load_seen(seenFile[ev.cat])

\* C15: /start leaves the stored set as the previous one plus the caller,
\* /stop as the previous one minus the caller; a /stop of a chat that is not
\* subscribed writes nothing and answers "not subscribed"; no other chat's
\* membership changes.
C15_StartAddsStopRemoves ==
    /\ ev.op = "start"
          => /\ load_subscribers(subsFile) = load_subscribers(ev.before) \cup {ev.chat}
             /\ out[ev.task].chat = ev.chat /\ out[ev.task].text = WelcomeText
    /\ ev.op = "stop"
          => /\ load_subscribers(subsFile) = load_subscribers(ev.before) \ {ev.chat}
             /\ out[ev.task].chat = ev.chat
             /\ IF ev.chat \in load_subscribers(ev.before)
                THEN out[ev.task].text = StoppedText
                ELSE subsFile = ev.before /\ out[ev.task].text = NotSubscribedText
    /\ ev.op \in {"start", "stop"}
          => \A d \in Chats \ {ev.chat} :
                d \in load_subscribers(subsFile) <=> d \in load_subscribers(ev.before)

C15_Witness ==
    /\ ev.op = "stop"
    /\ ev.chat \notin load_subscribers(ev.before)
    /\ load_subscribers(ev.before) # {}
    /\ out[ev.task].text = NotSubscribedText

\* C16: when a selector returns nothing, its caller sends the placeholder of
\* the category to the chat it serves: the loop to the subscriber of the
\* turn, a /joke or /news handler to the chat that asked.
C16_PlaceholderWhenNothing ==
    (IsSelect /\ ~ev.some)
        => /\ out[ev.task].active
           /\ out[ev.task].text = Placeholder(ev.cat)
           /\ out[ev.task].chat = IF ev.task = LoopTask THEN chat_id ELSE hnd[ev.task].chat

C16_Witness ==
    /\ IsSelect /\ ~ev.some /\ ev.task = LoopTask
    /\ out[LoopTask].active /\ out[LoopTask].text = Placeholder(ev.cat)
    /\ \E h \in Handlers : out[h].active /\ out[h].text = Placeholder(out[h].cat)

\* C17: in a pass the subscribers are served in the order of the list, one
\* after the other: a message has been sent to a subscriber only when both
\* messages to every earlier subscriber have been, the joke of a subscriber
\* only after the news of the same one, and a selection starts only when
\* the send before it is over.
C17_SequentialNewsThenJoke ==
    LET calls(i, cat) == sentInPass[subs_list[i], cat]
    IN /\ \A i \in 1..Len(subs_list) :
             calls(i, "joke") >= 1
                => calls(i, "news") = 1 /\ ~(idx = i /\ loopPc \in {"news_fetch", "news_send"})
       /\ \A i \in 1..Len(subs_list), j \in 1..Len(subs_list) :
             (i < j /\ (calls(j, "news") >= 1 \/ calls(j, "joke") >= 1))
                => calls(i, "news") = 1 /\ calls(i, "joke") = 1 /\ idx >= j
       /\ loopPc = "joke_fetch"
             => calls(idx, "news") = 1 /\ calls(idx, "joke") = 0 /\ ~out[LoopTask].active
       /\ loopPc = "news_fetch"
             => calls(idx, "news") = 0 /\ calls(idx, "joke") = 0 /\ ~out[LoopTask].active

C17_Witness ==
    /\ Len(subs_list) = 2 /\ idx = 2 /\ loopPc = "joke_send"
    /\ \A i \in 1..2, cat \in Cats : sentInPass[subs_list[i], cat] = 1

\* C19: the stored subscriber set is at every moment the result of the
\* /start and /stop commands applied one after the other in the order their
\* handlers ran, whatever handlers and passes are under way.
C19_CommandsSerialised == load_subscribers(subsFile) = applied

C19_Witness ==
    /\ loopPc \in {"news_fetch", "news_send", "joke_fetch", "joke_send"}
    /\ \E g \in Handlers, h \in Handlers :
          /\ hnd[g].kind = "start" /\ hnd[h].kind = "stop"
          /\ hnd[g].chat # hnd[h].chat
          /\ out[g].active /\ out[h].active
          /\ applied = {hnd[g].chat}

\* C20: a chat that a /stop has removed is not in the snapshot of a pass
\* that starts afterwards, and a chat that is not in the snapshot of a pass
\* is not in its list and gets no message from it; a chat removed while the
\* pass is under way is still served by that pass.
C20_StoppedBeforeSnapshotNotServed ==
    /\ ev.op = "stop" => ev.chat \notin load_subscribers(subsFile)
    /\ ev.op = "wake" => \A c \in Chats \ applied : c \notin load_subscribers(snapshot)
    /\ \A c \in Chats \ load_subscribers(snapshot) :
          /\ \A cat \in Cats : sentInPass[c, cat] = 0
          /\ ~(out[LoopTask].active /\ out[LoopTask].chat = c)
          /\ loopPc \in {"news_fetch", "news_send", "joke_fetch", "joke_send"}
                => c \notin ToSet(subs_list)

C20_Witness ==
    /\ loopPc = "joke_send" /\ out[LoopTask].active
    /\ out[LoopTask].chat \notin load_subscribers(subsFile)
    /\ out[LoopTask].chat \notin applied
    /\ out[LoopTask].chat \in load_subscribers(snapshot)
    /\ sentInPass[out[LoopTask].chat, "news"] = 1
    /\ sentInPass[out[LoopTask].chat, "joke"] = 1

\* C12: whatever sources answer and fail, the aggregation holds the items of
\* every source that answered, in the order the source gave them, and no
\* item of a source that failed: a source of three items and a source that
\* failed give three items.
C12_AggregatesSucceededSources ==
    feedEv.op = "aggregate"
        => LET urls == FeedsOf(feedEv.cat)
               from(url) == SelectSeq(feedEv.items, LAMBDA it : it.id[1] = url)
           IN /\ \A i \in 1..Len(urls) :
                    Ids(from(urls[i])) =
                        IF feedEv.oks[i]
                        THEN [k \in 1..Len(served[urls[i]]) |-> <<urls[i], Digits[k + 1]>>]
                        ELSE <<>>
              /\ \A k \in 1..Len(feedEv.items) :
                    \E i \in 1..Len(urls) : feedEv.items[k].id[1] = urls[i]

C12_Witness ==
    /\ feedEv.op = "aggregate" /\ feedEv.cat = "joke"
    /\ feedEv.oks = <<TRUE, FALSE, TRUE>>
    /\ Len(served["export20"]) = 3
    /\ Len(served["export_j"]) = 2
    /\ Len(served["export_j_non_burning"]) = 0
    /\ Len(feedEv.items) = 3

Usable(v) == v # Absent /\ Strip(v) # <<>>

\* C18: an entry gives an item only when its summary, description or title
\* carries text other than white space; the item's text is then the first
\* of the three that does, and it is not empty.
C18_ItemOnlyWithText ==
    feedEv.op = "entry"
        => LET e == feedEv.entry
               first == IF Usable(e.summary) THEN e.summary
                        ELSE IF Usable(e.description) THEN e.description
                        ELSE e.title
           IN IF Usable(first)
              THEN /\ Len(feedEv.items) = 1
                   /\ feedEv.items[1].text = Strip(first)
              ELSE feedEv.items = <<>>

Malformed(kind, file) ==
    \/ ~file.exists
    \/ ~json_load(file.data).ok
    \/ json_load(file.data).v.t # "dict"
    \/ /\ kind = "subs"
       /\ LET x == Get(json_load(file.data).v, KeyChatIds, PyList(<<>>))
          IN x.t = "list" /\ \E i \in 1..Len(x.l) : x.l[i].t # "int"

\* C13: a load never raises, and it returns the empty set for a file that is
\* missing, that json does not parse, that holds a document other than an
\* object, or whose "chat_ids" has an entry that is not an integer.
C13_LoadNeverRaises ==
    store.op = "load"
        => /\ ~store.res.raises
           /\ Malformed(store.kind, store.file)
                 => store.res.value = {} /\ store.res.foreign = {}

Canonical(kind, file, S) ==
    /\ file.exists
    /\ json_load(file.data).ok
    /\ LET v == json_load(file.data).v
       IN /\ v.t = "dict" /\ Len(v.d) = 1 /\ v.d[1].key = KeyOf(kind)
          /\ LET l == v.d[1].val.l
             IN /\ v.d[1].val.t = "list" /\ Len(l) = Cardinality(S)
                /\ IF kind = "subs"
                   THEN /\ \A i \in 1..Len(l) : l[i].t = "int" /\ l[i].n \in S
                        /\ \A i \in 1..Len(l), j \in 1..Len(l) : i < j => l[i].n < l[j].n
                   ELSE /\ \A i \in 1..Len(l) : l[i].t = "str" /\ l[i].s \in S
                        /\ \A i \in 1..Len(l), j \in 1..Len(l) :
                              i < j => StrLess(l[i].s, l[j].s)

\* C14: a load after a save returns the set that was saved, the document a
\* save writes is the one key with the sorted list of the set, and saving
\* what was loaded from a file that a save wrote leaves the file as it was.
C14_RoundTrip ==
    /\ store.op \in {"save", "resave"}
          => /\ load_call(store.kind, store.file) = Returned(store.arg, {})
             /\ Canonical(store.kind, store.file, store.arg)
    /\ (store.op = "resave" /\ store.beforeWritten) => store.file = store.before

C14_Witness ==
    /\ store.op = "save" /\ store.kind = "subs" /\ store.arg = {1, 2, 3}
    /\ store.file.data = << Punct("{"), Tok("str", 0, <<"chat_ids">>), Punct(":"),
                            Punct("["), Tok("int", 1, <<>>), Punct(","),
                            Tok("int", 2, <<>>), Punct(","), Tok("int", 3, <<>>),
                            Punct("]"), Punct("}") >>
    /\ load_subscribers(store.file) = {1, 2, 3}

====
